---------------------------- MODULE Spec2Model ----------------------------
(***************************************************************************)
(* Model of openedu_builder/plugins/docusaurus.py: DocusaurusPlugin's      *)
(* _parse_structure, _organize_files and _resolve_links as run() calls     *)
(* them.                                                                   *)
(*                                                                         *)
(* Python str values are sequences of one-character strings, so that       *)
(* str.startswith, str.replace, str.rstrip and the os.path functions work  *)
(* on characters exactly as they do in the source.                         *)
(***************************************************************************)
EXTENDS Integers, Sequences, FiniteSets, TLC

(***************************************************************************)
(* str methods                                                             *)
(***************************************************************************)

\* str.startswith(prefix)
startswith(s, prefix) ==
    /\ Len(prefix) <= Len(s)
    /\ SubSeq(s, 1, Len(prefix)) = prefix

\* str.endswith(suffix)
endswith(s, suffix) ==
    /\ Len(suffix) <= Len(s)
    /\ SubSeq(s, Len(s) - Len(suffix) + 1, Len(s)) = suffix

\* str.removeprefix(prefix)
removeprefix(s, prefix) ==
    IF startswith(s, prefix) THEN SubSeq(s, Len(prefix) + 1, Len(s)) ELSE s

\* str.lstrip(c) for a one-character argument
RECURSIVE lstrip(_, _)
lstrip(s, c) ==
    IF s # <<>> /\ Head(s) = c THEN lstrip(Tail(s), c) ELSE s

\* str.rstrip(c) for a one-character argument
RECURSIVE rstrip(_, _)
rstrip(s, c) ==
    IF s # <<>> /\ s[Len(s)] = c THEN rstrip(SubSeq(s, 1, Len(s) - 1), c) ELSE s

\* str.strip(c) for a one-character argument
strip(s, c) == rstrip(lstrip(s, c), c)

\* c in s, for a one-character c
contains(s, c) == \E i \in 1..Len(s) : s[i] = c

\* str.rfind(c) + 1: the index of the last c in s, 0 when there is none
rfind1(s, c) ==
    LET hits == {i \in 1..Len(s) : s[i] = c}
    IN  IF hits = {} THEN 0 ELSE CHOOSE i \in hits : \A j \in hits : j <= i

\* str.replace(old, new): every non-overlapping occurrence, left to right
RECURSIVE replace(_, _, _)
replace(s, old, new) ==
    IF s = <<>> THEN <<>>
    ELSE IF startswith(s, old)
         THEN new \o replace(SubSeq(s, Len(old) + 1, Len(s)), old, new)
         ELSE <<Head(s)>> \o replace(Tail(s), old, new)

\* str.split(sep) for a one-character separator: the list of the pieces
RECURSIVE split(_, _)
split(s, sep) ==
    LET hits == {i \in 1..Len(s) : s[i] = sep}
    IN  IF hits = {} THEN <<s>>
        ELSE LET i == CHOOSE h \in hits : \A j \in hits : h <= j
             IN  <<SubSeq(s, 1, i - 1)>> \o split(SubSeq(s, i + 1, Len(s)), sep)

\* sep.join(parts)
RECURSIVE strjoin(_, _)
strjoin(parts, sep) ==
    IF parts = <<>> THEN <<>>
    ELSE IF Len(parts) = 1 THEN parts[1]
    ELSE parts[1] \o <<sep>> \o strjoin(Tail(parts), sep)

(***************************************************************************)
(* os.path (posixpath)                                                     *)
(***************************************************************************)

\* os.path.sep
sep == "/"

\* os.path.join(a, b)
os_path_join(a, b) ==
    IF b # <<>> /\ Head(b) = sep THEN b
    ELSE IF a = <<>> \/ a[Len(a)] = sep THEN a \o b
    ELSE a \o <<sep>> \o b

\* os.path.dirname(p)
os_path_dirname(p) ==
    LET head == SubSeq(p, 1, rfind1(p, sep))
    IN  IF head # <<>> /\ rstrip(head, sep) # <<>> THEN rstrip(head, sep) ELSE head

\* os.path.basename(p)
os_path_basename(p) == SubSeq(p, rfind1(p, sep) + 1, Len(p))

\* os.path.splitext(p)[0]: the root before the last dot of the last
\* component, leading dots of that component not counting
splitext_root(p) ==
    LET base == rfind1(p, sep)
        dot  == rfind1(p, ".")
        lead == {i \in (base + 1)..dot : \A j \in (base + 1)..i : p[j] = "."}
    IN  IF dot > base /\ dot \notin lead THEN SubSeq(p, 1, dot - 1) ELSE p

\* The components of os.path.normpath(p) for an absolute p: empty and "."
\* components dropped, ".." removing the component before it (none at the root)
RECURSIVE normparts(_, _)
normparts(parts, acc) ==
    IF parts = <<>> THEN acc
    ELSE LET c == Head(parts)
         IN  IF c = <<>> \/ c = <<".">> THEN normparts(Tail(parts), acc)
             ELSE IF c = <<".", ".">>
                  THEN normparts(Tail(parts),
                                 IF acc = <<>> THEN acc
                                 ELSE SubSeq(acc, 1, Len(acc) - 1))
             ELSE normparts(Tail(parts), Append(acc, c))

\* os.path.realpath(p) for an absolute p of a tree without symbolic links
os_path_realpath(p) == <<sep>> \o strjoin(normparts(split(p, sep), <<>>), sep)

\* The length of the common prefix of two lists
RECURSIVE commonlen(_, _)
commonlen(a, b) ==
    IF a = <<>> \/ b = <<>> \/ Head(a) # Head(b) THEN 0
    ELSE 1 + commonlen(Tail(a), Tail(b))

\* os.path.relpath(path, start) for absolute arguments
os_path_relpath(path, start) ==
    LET start_list == normparts(split(start, sep), <<>>)
        path_list  == normparts(split(path, sep), <<>>)
        i          == commonlen(start_list, path_list)
        rel_list   == [n \in 1..(Len(start_list) - i) |-> <<".", ".">>]
                      \o SubSeq(path_list, i + 1, Len(path_list))
    IN  IF rel_list = <<>> THEN <<".">> ELSE strjoin(rel_list, sep)

(***************************************************************************)
(* openedu_builder.path_utils                                              *)
(***************************************************************************)

\* path_utils.real_join(base, fragment): the fragment joined to the base and
\* made a real absolute path
real_join(base, fragment) == os_path_realpath(os_path_join(base, fragment))

\* path_utils.stem(path): the file name without its extension
stem(path) == splitext_root(os_path_basename(path))

(***************************************************************************)
(* Values of the configuration: the structure description as the YAML      *)
(* loader hands it over (str, list, dict, and int / None for the shapes    *)
(* the plugin rejects).  A dict keeps its items in insertion order.        *)
(***************************************************************************)

Str(s)      == [t |-> "str", s |-> s]
List(items) == [t |-> "list", items |-> items]
Dict(kv)    == [t |-> "dict", kv |-> kv]
IntVal      == [t |-> "int"]
NoneVal     == [t |-> "NoneType"]

\* dict.get(key, default)
RECURSIVE items_get(_, _, _)
items_get(items, key, default) ==
    IF items = <<>> THEN default
    ELSE IF items[Len(items)][1] = key THEN items[Len(items)][2]
    ELSE items_get(SubSeq(items, 1, Len(items) - 1), key, default)

dict_get(d, key, default) == items_get(d.kv, key, default)

\* key in dict
dict_has(d, key) == \E i \in 1..Len(d.kv) : d.kv[i][1] = key

K_path        == <<"p", "a", "t", "h">>
K_extra       == <<"e", "x", "t", "r", "a">>
K_subsections == <<"s", "u", "b", "s", "e", "c", "t", "i", "o", "n", "s">>
Introduction  == <<"I", "n", "t", "r", "o", "d", "u", "c", "t", "i", "o", "n">>

\* urllib.parse.unquote(s), for the escape %20
RECURSIVE unquote(_)
unquote(s) ==
    IF s = <<>> THEN <<>>
    ELSE IF startswith(s, <<"%", "2", "0">>)
         THEN <<" ">> \o unquote(SubSeq(s, 4, Len(s)))
         ELSE <<Head(s)>> \o unquote(Tail(s))

(***************************************************************************)
(* Exceptions                                                              *)
(***************************************************************************)

NoError == [type |-> "none"]

\* PluginRunError(f"Invalid structure! Key: {k}, Value: {v}")
InvalidStructureKV(k, v) ==
    [type |-> "PluginRunError", msg |-> "Invalid structure! Key, Value",
     key |-> k, value |-> v]

\* PluginRunError(f"This shouldn't happend! Invalid structure! Value: {structure}")
InvalidStructureValue(v) ==
    [type |-> "PluginRunError", msg |-> "Invalid structure! Value", value |-> v]

\* KeyError(key) of a dict subscript
KeyError(key) == [type |-> "KeyError", key |-> key]

\* IndexError of list(item.keys())[0] for an empty dict
IndexError == [type |-> "IndexError"]

\* AttributeError of item.keys() for an item that is no dict
AttributeError(v) == [type |-> "AttributeError", value |-> v]

\* FileNotFoundError(ENOENT, src)
FileNotFoundError(path) == [type |-> "FileNotFoundError", path |-> path]

\* FileExistsError / NotADirectoryError of os.makedirs over a regular file
FileExistsError(path) == [type |-> "FileExistsError", path |-> path]

(***************************************************************************)
(* _parse_structure                                                        *)
(***************************************************************************)

\* copy_entry_str with the destination joined to the key itself instead of
\* the key's directory part
copy_entry_str_key(k, v, src_path, dst_path) ==
    <<real_join(src_path, v), os_path_join(dst_path, k)>>

\* The entry a string value v under key k adds to to_copy
copy_entry_str(k, v, src_path, dst_path) ==
    <<real_join(src_path, v), os_path_join(dst_path, os_path_dirname(k))>>

\* The entry one item of a section's extra list adds to to_copy
copy_entry_extra(extra, _src_path, _dst_path) ==
    LET e == rstrip(extra, sep)
    IN  <<real_join(_src_path, e), real_join(_dst_path, stem(e))>>

\* for extra in v.get("extra", []): to_copy.add(...)
copy_extras(v, _src_path, _dst_path) ==
    LET extras == dict_get(v, K_extra, List(<<>>)).items
    IN  {copy_entry_extra(extras[i].s, _src_path, _dst_path) : i \in 1..Len(extras)}

RECURSIVE parse_copy(_, _, _, _), parse_copy_list(_, _, _, _), parse_copy_items(_, _, _, _)

\* _parse_copy(structure, src_path, dst_path), to_copy threaded through:
\* [err, to_copy] where to_copy holds what was added before err was raised
parse_copy(structure, src_path, dst_path, to_copy) ==
    IF structure.t = "list"
    THEN parse_copy_list(structure.items, src_path, dst_path, to_copy)
    ELSE IF structure.t = "dict"
    THEN parse_copy_items(structure.kv, src_path, dst_path, to_copy)
    ELSE [err |-> InvalidStructureValue(structure), to_copy |-> to_copy]

\* for item in structure: _parse_copy(item, src_path, dst_path)
parse_copy_list(items, src_path, dst_path, to_copy) ==
    IF items = <<>> THEN [err |-> NoError, to_copy |-> to_copy]
    ELSE LET r == parse_copy(Head(items), src_path, dst_path, to_copy)
         IN  IF r.err # NoError THEN r
             ELSE parse_copy_list(Tail(items), src_path, dst_path, r.to_copy)

\* for k, v in structure.items(): ...
parse_copy_items(items, src_path, dst_path, to_copy) ==
    IF items = <<>> THEN [err |-> NoError, to_copy |-> to_copy]
    ELSE LET k == Head(items)[1]
             v == Head(items)[2]
             r == IF v.t = "str"
                  THEN [err |-> NoError,
                        to_copy |-> to_copy \cup {copy_entry_str(k, v.s, src_path, dst_path)}]
                  ELSE IF v.t = "dict"
                  THEN LET _dst_path == os_path_join(dst_path, k)
                           _src_path == real_join(src_path, dict_get(v, K_path, Str(<<>>)).s)
                       IN  parse_copy(dict_get(v, K_subsections, List(<<>>)),
                                      _src_path, _dst_path,
                                      to_copy \cup copy_extras(v, _src_path, _dst_path))
                  ELSE IF v.t = "list"
                  THEN parse_copy(v, src_path, os_path_join(dst_path, k), to_copy)
                  ELSE [err |-> InvalidStructureKV(k, v), to_copy |-> to_copy]
         IN  IF r.err # NoError THEN r
             ELSE parse_copy_items(Tail(items), src_path, dst_path, r.to_copy)

\* The id of a string-valued node: the stem of the value, else the stem of
\* the key, else README, after the key's directory part
leaf_id(k, v, path) ==
    LET path_component == os_path_dirname(k)
        _path == IF path_component # <<>> THEN path \o path_component \o <<"/">> ELSE path
    IN  IF stem(v) # <<>> THEN _path \o stem(v)
        ELSE IF stem(k) # <<>> THEN _path \o stem(k)
        ELSE _path \o <<"R", "E", "A", "D", "M", "E">>

RECURSIVE parse_sidebar(_, _, _), parse_sidebar_children(_, _, _)

\* _parse_sidebar that descends into sections only: a list value gets a node
\* without children
parse_sidebar_sections_only(k, v, path) ==
    LET title == unquote(strip(k, "/"))
    IN  IF v.t = "dict" /\ dict_has(v, K_subsections)
        THEN LET c == parse_sidebar_children(dict_get(v, K_subsections, List(<<>>)).items,
                                             path \o k \o <<"/">>, <<>>)
             IN  [err |-> c.err,
                  node |-> [title |-> title, id |-> path \o k, children |-> c.children]]
        ELSE IF v.t = "dict"
        THEN [err |-> KeyError(K_subsections),
              node |-> [title |-> title, id |-> path \o k, children |-> <<>>]]
        ELSE IF v.t = "str"
        THEN [err |-> NoError, node |-> [title |-> title, id |-> leaf_id(k, v.s, path)]]
        ELSE [err |-> NoError, node |-> [title |-> title, id |-> path \o k]]

\* _parse_sidebar(k, v, path): [err, node]
parse_sidebar(k, v, path) ==
    LET title == unquote(strip(k, "/"))
    IN  IF v.t = "list" \/ (v.t = "dict" /\ dict_has(v, K_subsections))
        THEN LET items == IF v.t = "list" THEN v.items
                          ELSE dict_get(v, K_subsections, List(<<>>)).items
                 c == parse_sidebar_children(items, path \o k \o <<"/">>, <<>>)
             IN  [err |-> c.err,
                  node |-> [title |-> title, id |-> path \o k, children |-> c.children]]
        ELSE IF v.t = "dict"
        THEN [err |-> KeyError(K_subsections),
              node |-> [title |-> title, id |-> path \o k, children |-> <<>>]]
        ELSE IF v.t = "str"
        THEN [err |-> NoError, node |-> [title |-> title, id |-> leaf_id(k, v.s, path)]]
        ELSE [err |-> NoError, node |-> [title |-> title, id |-> path \o k]]

\* for item in ...: retval["children"].append(_parse_sidebar(first key, first value, _path))
parse_sidebar_children(items, _path, children) ==
    IF items = <<>> THEN [err |-> NoError, children |-> children]
    ELSE LET item == Head(items)
         IN  IF item.t # "dict"
             THEN [err |-> AttributeError(item), children |-> children]
             ELSE IF item.kv = <<>>
             THEN [err |-> IndexError, children |-> children]
             ELSE LET r == parse_sidebar(item.kv[1][1], item.kv[1][2], _path)
                  IN  IF r.err # NoError
                      THEN [err |-> r.err, children |-> children]
                      ELSE parse_sidebar_children(Tail(items), _path,
                                                  Append(children, r.node))

\* self.intro after the loop over the top-level items, which sets it before
\* the item's _parse_sidebar call: n_done items were parsed without an error
intro_after(items, n_done, intro0) ==
    intro0 \/ \E i \in 1..Len(items) :
                 /\ i <= n_done + 1
                 /\ items[i].t = "dict" /\ items[i].kv # <<>>
                 /\ items[i].kv[1][1] = Introduction

\* _parse_structure(): [err, to_copy, sidebar, intro]
parse_structure(structure, cwd, docs, intro0) ==
    LET c == parse_copy(structure, cwd, docs, {})
    IN  IF c.err # NoError
        THEN [err |-> c.err, to_copy |-> c.to_copy, sidebar |-> <<>>, intro |-> intro0]
        ELSE LET s == parse_sidebar_children(structure.items, <<>>, <<>>)
             IN  [err |-> s.err, to_copy |-> c.to_copy, sidebar |-> s.children,
                  intro |-> intro_after(structure.items, Len(s.children), intro0)]

(***************************************************************************)
(* The file system: a function from real paths to entries.  A regular file *)
(* holds the relative links of its text (content), in the order            *)
(* re.finditer meets them: tag "md" for [text](link), "iframe" for         *)
(* <iframe src="link">.  The text between the links is left out.  origin   *)
(* is the source path an entry was copied from (its own path for a source  *)
(* entry); the program never reads it.                                     *)
(***************************************************************************)

Dir(p)           == [kind |-> "dir", content |-> <<>>, origin |-> p]
File(p, content) == [kind |-> "file", content |-> content, origin |-> p]

os_path_exists(fs, p) == os_path_realpath(p) \in DOMAIN fs
os_path_isfile(fs, p) == os_path_exists(fs, p) /\ fs[os_path_realpath(p)].kind = "file"
os_path_isdir(fs, p)  == os_path_exists(fs, p) /\ fs[os_path_realpath(p)].kind = "dir"

\* The directory name and every directory above it
ancestors(name) ==
    LET parts == normparts(split(name, sep), <<>>)
    IN  {<<sep>> \o strjoin(SubSeq(parts, 1, i), sep) : i \in 0..Len(parts)}

\* os.makedirs(name, exist_ok=True): [err, fs]
os_makedirs(fs, name) ==
    LET dirs == ancestors(name)
    IN  IF \E d \in dirs : d \in DOMAIN fs /\ fs[d].kind = "file"
        THEN [err |-> FileExistsError(name), fs |-> fs]
        ELSE [err |-> NoError,
              fs  |-> [p \in DOMAIN fs \cup dirs |->
                          IF p \in DOMAIN fs THEN fs[p] ELSE Dir(p)]]

\* shutil.copytree(src, dst, dirs_exist_ok=True): the new file system
shutil_copytree(fs, src, dst) ==
    LET s        == os_path_realpath(src)
        d        == os_path_realpath(dst)
        under    == {p \in DOMAIN fs : p = s \/ startswith(p, s \o <<sep>>)}
        image(p) == d \o removeprefix(p, s)
        targets  == {image(p) : p \in under}
    IN  [q \in DOMAIN fs \cup targets |->
            IF q \in targets
            THEN LET p == CHOOSE p \in under : image(p) = q
                 IN  IF fs[p].kind = "dir" /\ q \in DOMAIN fs THEN fs[q] ELSE fs[p]
            ELSE fs[q]]

\* shutil.copy(src, dst): [err, fs]
shutil_copy(fs, src, dst) ==
    IF ~os_path_exists(fs, src)
    THEN [err |-> FileNotFoundError(src), fs |-> fs]
    ELSE LET target == os_path_realpath(
                           IF os_path_isdir(fs, dst)
                           THEN os_path_join(dst, os_path_basename(src))
                           ELSE dst)
             entry  == fs[os_path_realpath(src)]
         IN  [err |-> NoError,
              fs  |-> [q \in DOMAIN fs \cup {target} |->
                          IF q = target THEN entry ELSE fs[q]]]

(***************************************************************************)
(* _organize_files: one iteration of its loop                              *)
(***************************************************************************)

\* The body of the loop with a missing source passed over instead of raised
organize_entry_skip_missing(fs, src, dst) ==
    LET m == os_makedirs(fs, dst)
    IN  IF m.err # NoError THEN m
        ELSE IF os_path_isdir(fs, src)
        THEN [err |-> NoError, fs |-> shutil_copytree(m.fs, src, dst)]
        ELSE IF ~os_path_exists(fs, src)
        THEN [err |-> NoError, fs |-> m.fs]
        ELSE shutil_copy(m.fs, src, dst)

\* The body of `for src, dst in to_copy`: [err, fs]
organize_entry(fs, src, dst) ==
    LET m == os_makedirs(fs, dst)
    IN  IF m.err # NoError THEN m
        ELSE IF os_path_isdir(fs, src)
        THEN [err |-> NoError, fs |-> shutil_copytree(m.fs, src, dst)]
        ELSE shutil_copy(m.fs, src, dst)

(***************************************************************************)
(* _resolve_links                                                          *)
(***************************************************************************)

\* A Python dict as the list of its <<key, value>> items in insertion order
d_has(d, k) == \E i \in 1..Len(d) : d[i][1] = k
d_get(d, k) == d[CHOOSE i \in 1..Len(d) : d[i][1] = k][2]
d_set(d, k, v) ==
    IF d_has(d, k)
    THEN [i \in 1..Len(d) |-> IF d[i][1] = k THEN <<k, v>> ELSE d[i]]
    ELSE Append(d, <<k, v>>)
d_keys(d) == [i \in 1..Len(d) |-> d[i][1]]

\* The item one to_copy entry puts in src_to_dst (and, swapped, in dst_to_src)
map_entry(fs, src, dst) ==
    LET _src == rstrip(src, "/")
        _dst == rstrip(dst, "/")
    IN  IF os_path_isfile(fs, src) /\ os_path_isdir(fs, _dst)
        THEN <<_src, os_path_join(_dst, os_path_basename(src))>>
        ELSE <<_src, _dst>>

\* for src, dst in self.structure["to_copy"]: in the set's iteration order
RECURSIVE create_mappings(_, _, _, _)
create_mappings(fs, entries, src_to_dst, dst_to_src) ==
    IF entries = <<>> THEN [src_to_dst |-> src_to_dst, dst_to_src |-> dst_to_src]
    ELSE LET e == map_entry(fs, Head(entries)[1], Head(entries)[2])
         IN  create_mappings(fs, Tail(entries),
                             d_set(src_to_dst, e[1], e[2]),
                             d_set(dst_to_src, e[2], e[1]))

\* _walk_struct(structure): the ids it appends to dst_files
RECURSIVE walk_struct(_), walk_structs(_)
walk_struct(node) ==
    IF "children" \in DOMAIN node /\ node.children # <<>>
    THEN walk_structs(node.children)
    ELSE <<node.id>>

walk_structs(nodes) ==
    IF nodes = <<>> THEN <<>>
    ELSE walk_struct(Head(nodes)) \o walk_structs(Tail(nodes))

\* The sort key of _possible_src: the number of path segments
segment_count(x) == Len(split(strip(x, "/"), sep))

\* sorted(keys, key=segment_count, reverse=True): stable, so keys of equal
\* count stay in the dict's order
RECURSIVE sorted_from(_, _)
sorted_from(keys, n) ==
    IF n = 0 THEN <<>>
    ELSE SelectSeq(keys, LAMBDA x : segment_count(x) = n) \o sorted_from(keys, n - 1)

possible_src(src_to_dst) ==
    LET keys == d_keys(src_to_dst)
        top  == IF keys = <<>> THEN 0
                ELSE LET counts == {segment_count(keys[i]) : i \in 1..Len(keys)}
                     IN  CHOOSE c \in counts : \A o \in counts : o <= c
    IN  sorted_from(keys, top)

\* The capture group of both regular expressions: \.(?:\.)?\/.*?
link_matches(link) ==
    startswith(link, <<".", "/">>) \/ startswith(link, <<".", ".", "/">>)

\* itertools.chain(finditer(md_link_regex), finditer(iframe_link_regex)):
\* the group(1) of each match
found_links(content) ==
    LET of(tag) == SelectSeq(content, LAMBDA c : c.tag = tag /\ link_matches(c.link))
        all     == of("md") \o of("iframe")
    IN  [i \in 1..Len(all) |-> all[i].link]

\* next(x for x in _possible_src if src_ref.startswith(x)): the first one
choose_src(candidates, src_ref) ==
    LET hits == {i \in 1..Len(candidates) : startswith(src_ref, candidates[i])}
    IN  candidates[CHOOSE i \in hits : \A j \in hits : i <= j]

\* Whether the generator has a next element
has_src(candidates, src_ref) ==
    \E i \in 1..Len(candidates) : startswith(src_ref, candidates[i])

\* The written link for a computed relative path: wrapped when it holds a space
written_link(rel) ==
    IF contains(rel, " ")
    THEN replace(<<"<">> \o rel \o <<">">>, <<".", "m", "d">>, <<>>)
    ELSE rel

\* The loop body for one match: what the log lines of the source report
resolve_link(fs, src_to_dst, candidates, src_dir, dst_dir, src_link) ==
    LET src_ref == real_join(src_dir, src_link)
    IN  IF ~has_src(candidates, src_ref)
        THEN [found |-> FALSE, src_link |-> src_link, src_ref |-> src_ref]
        ELSE LET _src_ref    == choose_src(candidates, src_ref)
                 src_ref_dir == IF os_path_isfile(fs, _src_ref)
                                THEN os_path_dirname(_src_ref) ELSE _src_ref
                 _dst_ref    == d_get(src_to_dst, _src_ref)
                 dst_ref_dir == IF os_path_isfile(fs, _dst_ref)
                                THEN os_path_dirname(_dst_ref) ELSE _dst_ref
                 dst_ref     == real_join(dst_ref_dir,
                                          lstrip(removeprefix(src_ref, src_ref_dir), "/"))
                 rel         == os_path_relpath(dst_ref, dst_dir)
             IN  [found |-> TRUE, src_link |-> src_link, src_ref |-> src_ref,
                  _src_ref |-> _src_ref, dst_ref |-> dst_ref, rel |-> rel,
                  dst_link |-> written_link(rel)]

\* content.replace(src_link, dst_link) on the text of every link
replace_content(content, src_link, dst_link) ==
    [i \in 1..Len(content) |->
        [content[i] EXCEPT !.link = replace(@, src_link, dst_link)]]

\* for match in chain(...): the matches were found in the text as read, the
\* replacements accumulate in content.  [content, log]
RECURSIVE resolve_matches(_, _, _, _, _, _, _, _)
resolve_matches(fs, src_to_dst, candidates, src_dir, dst_dir, links, content, log) ==
    IF links = <<>> THEN [content |-> content, log |-> log]
    ELSE LET r == resolve_link(fs, src_to_dst, candidates, src_dir, dst_dir, Head(links))
         IN  resolve_matches(fs, src_to_dst, candidates, src_dir, dst_dir, Tail(links),
                             IF r.found
                             THEN replace_content(content, r.src_link, r.dst_link)
                             ELSE content,
                             Append(log, r))

(***************************************************************************)
(* The run: where the plugin works                                         *)
(***************************************************************************)

\* os.getcwd() as _parse_structure is called: __init__ changed to input_dir
cwd == <<"/", "s", "r", "c">>

\* self.docusaurus_dir = real_join(output_dir, course_name)
docusaurus_dir == <<"/", "d", "s", "t">>

\* os.path.join(self.docusaurus_dir, "docs")
docs == os_path_join(docusaurus_dir, <<"d", "o", "c", "s">>)

\* The most links a document of the content tree holds
MaxLinks == 2

\* The most times _resolve_links is run over one tree
MaxRuns == 2

\* The links the document lessons/l1.md may hold
LinkPool ==
    { [tag |-> "md",     link |-> <<".", ".", "/", "s", "h", "a", "r", "e", "d", "/", "i", "m", "g", "/", "f", "i", "g", "1", ".", "p", "n", "g">>],
      [tag |-> "md",     link |-> <<".", ".", "/", ".", ".", "/", "s", "h", "a", "r", "e", "d", "/", "i", "m", "g", "/", "f", "i", "g", "1", ".", "p", "n", "g">>],
      [tag |-> "md",     link |-> <<".", "/", "i", "n", "t", "r", "o", ".", "m", "d">>],
      [tag |-> "md",     link |-> <<".", ".", "/", "i", "n", "t", "r", "o", ".", "m", "d">>],
      [tag |-> "md",     link |-> <<".", ".", "/", "s", "h", "a", "r", "e", "d", "/", "g", "u", "i", "d", "e", ".", "m", "d", "x">>],
      [tag |-> "md",     link |-> <<".", ".", "/", "s", "h", "a", "r", "e", "d", "/", "R", "E", "A", "D", "M", "E", ".", "m", "d">>],
      [tag |-> "iframe", link |-> <<".", ".", "/", "s", "h", "a", "r", "e", "d", "/", "i", "m", "g", "/", "f", "i", "g", "1", ".", "p", "n", "g">>] }

\* The texts of lessons/l1.md: up to MaxLinks links of the pool
Contents == UNION {[1..n -> LinkPool] : n \in 0..MaxLinks}

\* The paths of the content tree that may be gone when the files are copied
Vanishable == {<<"/", "s", "r", "c", "/", "l", "e", "s", "s", "o", "n", "s", "/", "l", "1", ".", "m", "d">>}

\* The content tree under the input directory and the emptied docs directory
\* run() leaves before _organize_files (lines 450-456)
Tree(l1_content) ==
    LET dirs  == {<<"/">>, <<"/", "s", "r", "c">>, <<"/", "s", "r", "c", "/", "l", "e", "s", "s", "o", "n", "s">>, <<"/", "s", "r", "c", "/", "s", "h", "a", "r", "e", "d">>, <<"/", "s", "r", "c", "/", "s", "h", "a", "r", "e", "d", "/", "i", "m", "g">>,
                  <<"/", "s", "r", "c", "/", "s", "h">>, <<"/", "d", "s", "t">>, <<"/", "d", "s", "t", "/", "d", "o", "c", "s">>}
        files == {File(<<"/", "s", "r", "c", "/", "i", "n", "t", "r", "o", ".", "m", "d">>, <<[tag |-> "md", link |-> <<".", "/", "l", "e", "s", "s", "o", "n", "s", "/", "l", "1", ".", "m", "d">>]>>),
                  File(<<"/", "s", "r", "c", "/", "l", "e", "s", "s", "o", "n", "s", "/", "l", "1", ".", "m", "d">>, l1_content),
                  File(<<"/", "s", "r", "c", "/", "l", "e", "s", "s", "o", "n", "s", "/", "i", "n", "t", "r", "o", ".", "m", "d">>, <<>>),
                  File(<<"/", "s", "r", "c", "/", "s", "h", "a", "r", "e", "d", "/", "R", "E", "A", "D", "M", "E", ".", "m", "d">>, <<[tag |-> "md", link |-> <<".", "/", "i", "m", "g", "/", "f", "i", "g", "1", ".", "p", "n", "g">>]>>),
                  File(<<"/", "s", "r", "c", "/", "s", "h", "a", "r", "e", "d", "/", "g", "u", "i", "d", "e", ".", "m", "d", "x">>, <<>>),
                  File(<<"/", "s", "r", "c", "/", "s", "h", "a", "r", "e", "d", "/", "i", "m", "g", "/", "f", "i", "g", "1", ".", "p", "n", "g">>, <<>>),
                  File(<<"/", "s", "r", "c", "/", "s", "h", "/", "a", ".", "p", "n", "g">>, <<>>)}
        paths == dirs \cup {f.origin : f \in files}
    IN  [p \in paths |-> IF p \in dirs THEN Dir(p)
                         ELSE CHOOSE f \in files : f.origin = p]

\* The tree with the paths of gone removed
Without(fs, gone) == [p \in DOMAIN fs \ gone |-> fs[p]]

\* One entry of a structure list: {key: value}
Entry(k, v) == Dict(<< <<k, v>> >>)

\* {"path": path, "subsections": subsections}
Section(path, subsections) ==
    Dict(<< <<K_path, Str(path)>>, <<K_subsections, List(subsections)>> >>)

\* The structure of the specification's two scenarios, with an overview page
\* beside the lesson
StructureLessons ==
    List(<< Entry(<<"I", "n", "t", "r", "o">>, Str(<<"i", "n", "t", "r", "o", ".", "m", "d">>)),
            Entry(<<"L", "e", "s", "s", "o", "n", "s">>, Section(<<"l", "e", "s", "s", "o", "n", "s">>,
                << Entry(<<"L", "e", "s", "s", "o", "n", " ", "1">>, Str(<<"l", "1", ".", "m", "d">>)),
                   Entry(<<"O", "v", "e", "r", "v", "i", "e", "w">>, Str(<<"i", "n", "t", "r", "o", ".", "m", "d">>)) >>)),
            Entry(<<"S", "h", "a", "r", "e", "d", "/">>, Str(<<"s", "h", "a", "r", "e", "d", "/">>)) >>)

\* Two copied directories, the name of one beginning with the other's
StructurePrefix ==
    List(<< Entry(<<"L", "e", "s", "s", "o", "n", "s">>, List(<< Entry(<<"L", "e", "s", "s", "o", "n", " ", "1">>, Str(<<"l", "e", "s", "s", "o", "n", "s", "/", "l", "1", ".", "m", "d">>)) >>)),
            Entry(<<"S", "h", "a", "r", "e", "d", "/">>, Str(<<"s", "h", "a", "r", "e", "d", "/">>)),
            Entry(<<"S", "h", "/">>, Str(<<"s", "h", "/">>)) >>)

\* Titles with a space in them
StructureSpace ==
    List(<< Entry(<<"M", "y", " ", "L", "a", "b", "s">>, Section(<<"l", "e", "s", "s", "o", "n", "s">>, << Entry(<<"L", "e", "s", "s", "o", "n", " ", "1">>, Str(<<"l", "1", ".", "m", "d">>)) >>)),
            Entry(<<"S", "h", "a", "r", "e", "d", " ", "F", "i", "l", "e", "s", "/">>, Str(<<"s", "h", "a", "r", "e", "d", "/">>)) >>)

\* A section still without pages, and a directory without a README
StructureEmpty ==
    List(<< Entry(<<"P", "i", "c", "s", "/">>, Str(<<"s", "h", "a", "r", "e", "d", "/", "i", "m", "g", "/">>)),
            Entry(<<"L", "e", "s", "s", "o", "n", " ", "1">>, Str(<<"l", "e", "s", "s", "o", "n", "s", "/", "l", "1", ".", "m", "d">>)),
            Entry(<<"E", "m", "p", "t", "y">>, List(<<>>)) >>)

\* A directory published under the name of another source directory
StructureRenamed ==
    List(<< Entry(<<"L", "e", "s", "s", "o", "n", "s">>, Section(<<"l", "e", "s", "s", "o", "n", "s">>, << Entry(<<"L", "e", "s", "s", "o", "n", " ", "1">>, Str(<<"l", "1", ".", "m", "d">>)) >>)),
            Entry(<<"s", "h", "/">>, Str(<<"s", "h", "a", "r", "e", "d", "/">>)),
            Entry(<<"S", "h", "/">>, Str(<<"s", "h", "/">>)) >>)

Structures ==
    {StructureLessons, StructurePrefix, StructureSpace, StructureEmpty, StructureRenamed}

\* The orders in which a set may be iterated
Orders(set) ==
    {f \in [1..Cardinality(set) -> set] : \A x \in set : \E i \in DOMAIN f : f[i] = x}

\* self.structure before _parse_structure has assigned it
Unset == [unset |-> TRUE]

VARIABLES
    config,      \* self.config["structure"]
    fs,          \* the file system
    intro,       \* self.intro
    structure,   \* self.structure
    order,       \* the iteration order of the set self.structure["to_copy"]
    pc,          \* where run() is: parse, organize, resolve, done, failed
    err,         \* the exception run() ended with
    n_copied,    \* the entries of to_copy _organize_files has been through
    src_to_dst,  \* _resolve_links' mapping, a dict
    dst_to_src,  \* _resolve_links' reverse mapping, a dict
    dst_files,   \* _resolve_links' list of document ids
    n_resolved,  \* the ids of dst_files _resolve_links has been through
    log,         \* per file gone through, what was logged for each link
    runs         \* the runs of _resolve_links that returned

vars == <<config, fs, intro, structure, order, pc, err, n_copied, src_to_dst,
          dst_to_src, dst_files, n_resolved, log, runs>>

\* The plugin as constructed (lines 31-60), run() about to be called
Constructed ==
    /\ intro = FALSE
    /\ structure = Unset
    /\ order = <<>>
    /\ pc = "parse"
    /\ err = NoError
    /\ n_copied = 0
    /\ src_to_dst = <<>>
    /\ dst_to_src = <<>>
    /\ dst_files = <<>>
    /\ n_resolved = 0
    /\ log = <<>>
    /\ runs = 0

Init ==
    /\ config \in Structures
    /\ \E c \in Contents, gone \in {{}} \cup {{v} : v \in Vanishable} :
           fs = Without(Tree(c), gone)
    /\ Constructed

\* run(), line 429: self._parse_structure()
ParseStructure ==
    /\ pc = "parse"
    /\ LET r == parse_structure(config, cwd, docs, intro)
       IN  /\ intro' = r.intro
           /\ IF r.err # NoError
              THEN /\ err' = r.err
                   /\ pc' = "failed"
                   /\ UNCHANGED <<structure, order>>
              ELSE /\ structure' = [raw |-> config, to_copy |-> r.to_copy,
                                    sidebar |-> r.sidebar]
                   /\ order' \in Orders(r.to_copy)
                   /\ pc' = "organize"
                   /\ UNCHANGED err
    /\ UNCHANGED <<config, fs, n_copied, src_to_dst, dst_to_src, dst_files,
                   n_resolved, log, runs>>

\* _organize_files (line 469): one iteration of `for src, dst in to_copy`
OrganizeFiles ==
    /\ pc = "organize"
    /\ n_copied < Len(order)
    /\ LET e == order[n_copied + 1]
           r == organize_entry(fs, e[1], e[2])
       IN  /\ fs' = r.fs
           /\ IF r.err # NoError
              THEN /\ err' = r.err
                   /\ pc' = "failed"
                   /\ UNCHANGED n_copied
              ELSE /\ n_copied' = n_copied + 1
                   /\ UNCHANGED <<err, pc>>
    /\ UNCHANGED <<config, intro, structure, order, src_to_dst, dst_to_src,
                   dst_files, n_resolved, log, runs>>

\* _resolve_links, lines 311-341: the mappings and the list of documents
begin_resolve ==
    /\ LET m == create_mappings(fs, order, <<>>, <<>>)
       IN  /\ src_to_dst' = m.src_to_dst
           /\ dst_to_src' = m.dst_to_src
    /\ dst_files' = walk_structs(structure.sidebar)
    /\ n_resolved' = 0
    /\ pc' = "resolve"
    /\ UNCHANGED <<config, fs, intro, structure, order, err, n_copied, log, runs>>

\* run(), line 470: _resolve_links() once _organize_files has returned
ResolveBegin ==
    /\ pc = "organize"
    /\ n_copied = Len(order)
    /\ begin_resolve

\* _resolve_links() called once more on the tree it has been through
ResolveAgain ==
    /\ pc = "done"
    /\ runs < MaxRuns
    /\ begin_resolve

\* The path _resolve_links opens for a document id (lines 348-350)
doc_file(the_fs, file) ==
    LET md == os_path_join(os_path_join(docusaurus_dir, <<"d", "o", "c", "s">>), file \o <<".", "m", "d">>)
    IN  IF os_path_exists(the_fs, md) THEN md
        ELSE os_path_join(os_path_join(docusaurus_dir, <<"d", "o", "c", "s">>), file \o <<".", "m", "d", "x">>)

\* _resolve_links, lines 343-421: one iteration of `for file in dst_files`
ResolveFile ==
    /\ pc = "resolve"
    /\ n_resolved < Len(dst_files)
    /\ LET file    == dst_files[n_resolved + 1]
           _file   == doc_file(fs, file)
           by_file == d_has(dst_to_src, _file) /\ d_get(dst_to_src, _file) # <<>>
           dst_dir == os_path_dirname(_file)
       IN  IF ~by_file /\ ~d_has(dst_to_src, dst_dir)
           THEN /\ err' = KeyError(dst_dir)
                /\ pc' = "failed"
                /\ UNCHANGED <<fs, n_resolved, log>>
           ELSE LET src_dir == IF by_file
                               THEN os_path_dirname(d_get(dst_to_src, _file))
                               ELSE d_get(dst_to_src, dst_dir)
                    _possible_src == possible_src(src_to_dst)
                IN  /\ IF os_path_exists(fs, _file)
                       THEN LET content == fs[os_path_realpath(_file)].content
                                r == resolve_matches(fs, src_to_dst, _possible_src,
                                                     src_dir, dst_dir,
                                                     found_links(content), content, <<>>)
                            IN  /\ fs' = [fs EXCEPT ![os_path_realpath(_file)].content
                                                        = r.content]
                                /\ log' = Append(log, [file |-> _file, read |-> TRUE,
                                                       links |-> r.log])
                       ELSE /\ fs' = fs
                            /\ log' = Append(log, [file |-> _file, read |-> FALSE,
                                                   links |-> <<>>])
                    /\ n_resolved' = n_resolved + 1
                    /\ UNCHANGED <<err, pc>>
    /\ UNCHANGED <<config, intro, structure, order, n_copied, src_to_dst,
                   dst_to_src, dst_files, runs>>

\* _resolve_links returns: the loop over dst_files is through
ResolveReturn ==
    /\ pc = "resolve"
    /\ n_resolved = Len(dst_files)
    /\ pc' = "done"
    /\ runs' = runs + 1
    /\ UNCHANGED <<config, fs, intro, structure, order, err, n_copied, src_to_dst,
                   dst_to_src, dst_files, n_resolved, log>>

Next ==
    \/ ParseStructure
    \/ OrganizeFiles
    \/ ResolveBegin
    \/ ResolveFile
    \/ ResolveReturn

Spec == Init /\ [][Next]_vars

\* run() followed by further runs of _resolve_links
NextTwice == Next \/ ResolveAgain

SpecTwice == Init /\ [][NextTwice]_vars

(***************************************************************************)
(* _parse_structure over a family of structure descriptions                *)
(***************************************************************************)

\* The most items of a list of the generated structure descriptions
MaxItems == 2

\* {"path": path, "extra": extra, "subsections": subsections}
SectionExtra(path, extra, subsections) ==
    Dict(<< <<K_path, Str(path)>>, <<K_extra, List(extra)>>,
            <<K_subsections, List(subsections)>> >>)

\* The structure of the specification's scenario
StructureScenario ==
    List(<< Entry(<<"I", "n", "t", "r", "o">>, Str(<<"i", "n", "t", "r", "o", ".", "m", "d">>)),
            Entry(<<"L", "e", "s", "s", "o", "n", "s">>, Section(<<"l", "e", "s", "s", "o", "n", "s">>,
                << Entry(<<"L", "e", "s", "s", "o", "n", " ", "1">>, Str(<<"l", "1", ".", "m", "d">>)) >>)) >>)

\* Sections in lists in sections, keys with directory parts
StructureDeep ==
    List(<< Entry(<<"P", "a", "r", "t">>, List(<<
                Entry(<<"L", "e", "s", "s", "o", "n", "s">>, SectionExtra(<<"l", "e", "s", "s", "o", "n", "s">>, <<Str(<<"m", "e", "d", "i", "a", "/">>)>>, <<
                    Entry(<<"w", "e", "e", "k", "1", "/", "L", "e", "s", "s", "o", "n", " ", "1">>, Str(<<"l", "1", ".", "m", "d">>)),
                    Entry(<<"L", "a", "b", "s">>, List(<< Entry(<<"L", "a", "b", "/">>, Str(<<"l", "a", "b", "/">>)) >>)) >>)) >>)) >>)

\* The values an innermost entry takes: a file, a directory, an empty list, a
\* section without pages, and the shapes a structure must not have
AtomValues ==
    { Str(<<"a", ".", "m", "d">>), Str(<<"x", "/">>), List(<<>>),
      SectionExtra(<<"p">>, <<Str(<<"e", "/">>)>>, <<>>),
      IntVal, NoneVal, Dict(<< <<K_path, Str(<<"p">>)>> >>) }

\* The items that come before an entry in its list: a page, or a bare string
SiblingItems == {Entry(Introduction, Str(<<"i", ".", "m", "d">>)), Str(<<"s">>)}

Siblings == UNION {[1..n -> SiblingItems] : n \in 0..(MaxItems - 1)}

ParseKeys == {<<"K">>, <<"d", "/", "T">>}

\* A list or a section around one entry and its siblings
Containers(values) ==
    UNION { { List(pre \o <<Entry(k, v)>>),
              Section(<<"l", "e", "s", "s", "o", "n", "s">>, pre \o <<Entry(k, v)>>),
              SectionExtra(<<>>, <<Str(<<"e", "/">>), Str(<<"f", ".", "t", "x", "t">>)>>, pre \o <<Entry(k, v)>>) }
            : pre \in Siblings, k \in ParseKeys, v \in values }

GeneratedStructures ==
    { List(pre \o <<Entry(k, v)>>)
        : pre \in Siblings, k \in ParseKeys, v \in AtomValues \cup Containers(AtomValues) }

ParseStructures ==
    GeneratedStructures \cup Structures \cup {StructureScenario, StructureDeep}

InitParse ==
    /\ config \in ParseStructures
    /\ fs = Tree(<<>>)
    /\ Constructed

NextParse == ParseStructure

\* _parse_structure alone, over the family
SpecParse == InitParse /\ [][NextParse]_vars

(***************************************************************************)
(* _parse_structure and _organize_files over the family, every source of   *)
(* which is in the content tree                                            *)
(***************************************************************************)

\* A section published under a key that ends with a separator, its page
\* under a key with a directory part
StructureSlashes ==
    List(<< Entry(<<"L", "a", "b", "s", "/">>, List(<<
                Entry(<<"l", "a", "b", "1", "/", "L", "a", "b", " ", "1">>, Str(<<"l", "e", "s", "s", "o", "n", "s", "/", "l", "1", ".", "m", "d">>)),
                Entry(<<"a", "/", "b", "/", "G", "u", "i", "d", "e">>, Str(<<"s", "h", "a", "r", "e", "d", "/", "g", "u", "i", "d", "e", ".", "m", "d", "x">>)) >>)) >>)

PlaceStructures == ParseStructures \cup {StructureSlashes}

\* The content tree with the files and directories the family names
TreePlace ==
    LET base  == Tree(<<>>)
        dirs  == {<<"/", "s", "r", "c", "/", "x">>, <<"/", "s", "r", "c", "/", "e">>, <<"/", "s", "r", "c", "/", "p">>, <<"/", "s", "r", "c", "/", "p", "/", "e">>,
                  <<"/", "s", "r", "c", "/", "l", "e", "s", "s", "o", "n", "s", "/", "x">>, <<"/", "s", "r", "c", "/", "l", "e", "s", "s", "o", "n", "s", "/", "p">>, <<"/", "s", "r", "c", "/", "l", "e", "s", "s", "o", "n", "s", "/", "p", "/", "e">>,
                  <<"/", "s", "r", "c", "/", "l", "e", "s", "s", "o", "n", "s", "/", "m", "e", "d", "i", "a">>, <<"/", "s", "r", "c", "/", "l", "e", "s", "s", "o", "n", "s", "/", "l", "a", "b">>}
        files == {<<"/", "s", "r", "c", "/", "a", ".", "m", "d">>, <<"/", "s", "r", "c", "/", "i", ".", "m", "d">>, <<"/", "s", "r", "c", "/", "f", ".", "t", "x", "t">>, <<"/", "s", "r", "c", "/", "x", "/", "R", "E", "A", "D", "M", "E", ".", "m", "d">>,
                  <<"/", "s", "r", "c", "/", "l", "e", "s", "s", "o", "n", "s", "/", "a", ".", "m", "d">>, <<"/", "s", "r", "c", "/", "l", "e", "s", "s", "o", "n", "s", "/", "i", ".", "m", "d">>,
                  <<"/", "s", "r", "c", "/", "l", "e", "s", "s", "o", "n", "s", "/", "l", "a", "b", "/", "R", "E", "A", "D", "M", "E", ".", "m", "d">>}
    IN  [p \in DOMAIN base \cup dirs \cup files |->
            IF p \in DOMAIN base THEN base[p]
            ELSE IF p \in dirs THEN Dir(p) ELSE File(p, <<>>)]

InitPlace ==
    /\ config \in PlaceStructures
    /\ fs = TreePlace
    /\ Constructed

NextPlace == ParseStructure \/ OrganizeFiles

\* run() up to the return of _organize_files
SpecPlace == InitPlace /\ [][NextPlace]_vars

(***************************************************************************)
(* What the claims speak of                                                *)
(***************************************************************************)

\* Path p is path s or lies under it
path_under(p, s) == p = s \/ startswith(p, rstrip(s, sep) \o <<sep>>)

\* The documents _resolve_links has read: their real paths
ScannedDocs == {os_path_realpath(log[i].file) : i \in {j \in 1..Len(log) : log[j].read}}

\* The text of document f as it was copied: its source's, which no step writes
original(f) == fs[fs[f].origin].content

\* The source path a link of document f pointed at before the move
target(f, link) == real_join(os_path_dirname(fs[f].origin), link)

\* Following link from document f lands on a copy of source path t
lands_on(f, link, t) ==
    LET q == real_join(os_path_dirname(f), link)
    IN  q \in DOMAIN fs /\ fs[q].origin = t /\ startswith(q, docs)

\* The link records logged for document f
records(f) ==
    LET hits == {j \in 1..Len(log) : log[j].read /\ os_path_realpath(log[j].file) = f}
    IN  log[CHOOSE j \in hits : \A k \in hits : k <= j].links

\* Every link record logged so far
AllRecords == UNION {{log[j].links[i] : i \in 1..Len(log[j].links)} : j \in 1..Len(log)}

\* No source path of the copy plan begins with the characters of another
\* without lying under it
PlanUnambiguous ==
    \A a \in structure.to_copy, b \in structure.to_copy :
        startswith(b[1], a[1]) => path_under(b[1], a[1])

\* C1: after _organize_files and _resolve_links, every relative link of a
\* scanned document whose target exists under a source path of the copy plan,
\* followed from the document's new directory, lands on the copy of that
\* target, whatever other links the document holds.  Stated for the links
\* whose new relative path holds no space (those are written unwrapped) and
\* for copy plans whose source paths cannot be mistaken for one another.
C1_LinkCorrectness ==
    (pc = "done" /\ PlanUnambiguous) =>
        \A f \in ScannedDocs : \A i \in 1..Len(original(f)) :
            LET link == original(f)[i].link
                t    == target(f, link)
            IN  (/\ link_matches(link)
                 /\ t \in DOMAIN fs
                 /\ \E e \in structure.to_copy : path_under(t, e[1])
                 /\ \A p \in DOMAIN fs : fs[p].origin = t => ~contains(p, " "))
                => lands_on(f, fs[f].content[i].link, t)

\* C2: a relative link whose source reference no source path of the copy plan
\* is a prefix of is warned about once per occurrence and stays as it was,
\* whatever other links the document holds.
C2_UnresolvedLinkKept ==
    pc = "done" =>
        \A f \in ScannedDocs : \A i \in 1..Len(original(f)) :
            LET link == original(f)[i].link
                t    == target(f, link)
                occurrences == {j \in 1..Len(original(f)) : original(f)[j].link = link}
                warned == {j \in 1..Len(records(f)) :
                              ~records(f)[j].found /\ records(f)[j].src_link = link}
            IN  (/\ link_matches(link)
                 /\ \A e \in structure.to_copy : ~startswith(t, rstrip(e[1], "/")))
                => /\ fs[f].content[i].link = link
                   /\ Cardinality(warned) = Cardinality(occurrences)

\* The entries of to_copy _organize_files has copied
Copied == {order[i] : i \in 1..n_copied}

\* C7: an entry of the copy plan whose source path does not exist makes
\* _organize_files fail with the file-not-found error of that path; no entry
\* after it is copied and _resolve_links is not started.
C7_MissingSourceAborts ==
    /\ \A e \in Copied : os_path_exists(fs, e[1])
    /\ (pc = "organize" /\ n_copied < Len(order))
          => (\A p \in DOMAIN fs : startswith(p, docs \o <<sep>>) =>
                 \E e \in Copied : path_under(fs[p].origin, e[1])
                                   \/ path_under(os_path_realpath(e[2]), p))
    /\ (pc = "failed" /\ err.type = "FileNotFoundError")
          => /\ n_copied < Len(order)
             /\ err.path = order[n_copied + 1][1]
             /\ ~os_path_exists(fs, err.path)
             /\ \A p \in DOMAIN fs : fs[p].kind = "file" /\ startswith(p, docs) =>
                    \E e \in Copied : path_under(fs[p].origin, e[1])
             /\ runs = 0 /\ log = <<>> /\ dst_files = <<>> /\ src_to_dst = <<>>
    /\ pc \in {"resolve", "done"}
          => \A e \in structure.to_copy : os_path_exists(fs, e[1])

\* C7's case: the copy failed on a missing source with entries copied before
\* it and entries left after it
C7_Witness ==
    /\ pc = "failed"
    /\ err.type = "FileNotFoundError"
    /\ n_copied >= 1
    /\ n_copied + 1 < Len(order)

\* C8: the source path chosen for a link is the longest source path of the
\* copy plan that the link's source reference starts with.
C8_LongestPrefix ==
    \A r \in AllRecords :
        r.found => \A i \in 1..Len(src_to_dst) :
                       startswith(r.src_ref, src_to_dst[i][1])
                           => Len(src_to_dst[i][1]) <= Len(r._src_ref)

\* A relative path without a trailing .md or .mdx
without_doc_ext(rel) ==
    IF endswith(rel, <<".", "m", "d", "x">>) THEN SubSeq(rel, 1, Len(rel) - 4)
    ELSE IF endswith(rel, <<".", "m", "d">>) THEN SubSeq(rel, 1, Len(rel) - 3)
    ELSE rel

\* C9: a computed relative path with a space in it is written in angle
\* brackets, without its trailing .md or .mdx and otherwise as it is; one
\* without a space is written as it is.
C9_SpaceInLink ==
    \A r \in AllRecords :
        r.found => r.dst_link = IF contains(r.rel, " ")
                                THEN <<"<">> \o without_doc_ext(r.rel) \o <<">">>
                                ELSE r.rel

\* C10: a navigation entry with neither <docs>/<id>.md nor <docs>/<id>.mdx
\* is skipped without an error, and the entries after it are gone through.
C10_MissingDocSkipped ==
    /\ (pc = "failed" /\ dst_files # <<>> /\ n_resolved < Len(dst_files))
          => os_path_exists(fs, doc_file(fs, dst_files[n_resolved + 1]))
    /\ pc = "done" => n_resolved = Len(dst_files)

\* C5: a second run of _resolve_links over the tree the first run left, with
\* the same copy plan, changes no link of any file.  Stated for runs in which
\* every link was resolved under the longest source path it starts with.
C5_SecondRunChangesNothing ==
    [][(runs >= 1 /\ C8_LongestPrefix') => fs' = fs]_vars

(***************************************************************************)
(* What the claims say of a structure description                          *)
(***************************************************************************)

RECURSIVE valid_value(_), valid_items(_)

\* A list of strings
strings(v) == v.t = "list" /\ \A i \in 1..Len(v.items) : v.items[i].t = "str"

\* A value is a string, a list of entries, or an object of a path, a list of
\* extra paths and subsections, with its subsections
valid_value(v) ==
    \/ v.t = "str"
    \/ v.t = "list" /\ valid_items(v.items)
    \/ /\ v.t = "dict"
       /\ \A i \in 1..Len(v.kv) : v.kv[i][1] \in {K_path, K_extra, K_subsections}
       /\ dict_get(v, K_path, Str(<<>>)).t = "str"
       /\ strings(dict_get(v, K_extra, List(<<>>)))
       /\ dict_has(v, K_subsections)
       /\ dict_get(v, K_subsections, IntVal).t = "list"
       /\ valid_items(dict_get(v, K_subsections, IntVal).items)

\* Every item of a list is one entry {key: value} of a valid value
valid_items(items) ==
    \A i \in 1..Len(items) :
        /\ items[i].t = "dict"
        /\ Len(items[i].kv) = 1
        /\ valid_value(items[i].kv[1][2])

RECURSIVE value_marks(_), items_marks(_)

\* One mark per entry of the description that could stand for a page: "str"
\* for a string value, "extra" for an item of an extra list, "empty" for a
\* list or a section without entries
value_marks(v) ==
    IF v.t = "str" THEN <<"str">>
    ELSE IF v.t = "list"
    THEN IF v.items = <<>> THEN <<"empty">> ELSE items_marks(v.items)
    ELSE IF v.t = "dict"
    THEN LET extra == dict_get(v, K_extra, List(<<>>)).items
             subs  == dict_get(v, K_subsections, List(<<>>)).items
         IN  [i \in 1..Len(extra) |-> "extra"]
             \o (IF subs = <<>> THEN <<"empty">> ELSE items_marks(subs))
    ELSE <<>>

items_marks(items) ==
    IF items = <<>> THEN <<>>
    ELSE value_marks(Head(items).kv[1][2]) \o items_marks(Tail(items))

marks(what) == Len(SelectSeq(items_marks(config.items), LAMBDA m : m = what))

\* The nodes of a navigation tree that have no children
RECURSIVE leaf_count(_)
leaf_count(nodes) ==
    IF nodes = <<>> THEN 0
    ELSE (IF "children" \in DOMAIN Head(nodes) /\ Head(nodes).children # <<>>
          THEN leaf_count(Head(nodes).children) ELSE 1)
         + leaf_count(Tail(nodes))

\* C3 as stated: for a valid description _parse_structure returns, and the
\* leaves of its navigation tree are as many as the string values and the
\* items of the extra lists together.
C3_LeavesCountStringsAndExtras ==
    (pc # "parse" /\ valid_items(config.items)) =>
        /\ pc = "organize" /\ err = NoError
        /\ leaf_count(structure.sidebar) = marks("str") + marks("extra")

\* C3, amended: for a valid description _parse_structure returns, and the
\* leaves of its navigation tree are as many as the string values and the
\* lists and sections without entries together; the items of an extra list
\* add no node.
C3_LeavesCountStringsAndEmpties ==
    (pc # "parse" /\ valid_items(config.items)) =>
        /\ pc = "organize" /\ err = NoError
        /\ leaf_count(structure.sidebar) = marks("str") + marks("empty")

\* C3's case: a valid description with strings at two places, a non-empty
\* extra list and a list without entries has been parsed
C3_Witness ==
    /\ pc = "organize"
    /\ valid_items(config.items)
    /\ marks("str") >= 2 /\ marks("extra") >= 1 /\ marks("empty") >= 1

\* A path as a location: real, without a trailing separator
location(p) == os_path_realpath(p)

RECURSIVE expected_value(_, _, _, _), expected_items(_, _, _)

\* The copy plan the specification gives for value v under key k, the source
\* base being S and the destination base D
expected_value(k, v, S, D) ==
    IF v.t = "str"
    THEN {<<location(os_path_join(S, v.s)), location(os_path_join(D, os_path_dirname(k)))>>}
    ELSE IF v.t = "list"
    THEN expected_items(v.items, S, location(os_path_join(D, k)))
    ELSE LET S2    == location(os_path_join(S, dict_get(v, K_path, Str(<<>>)).s))
             D2    == location(os_path_join(D, k))
             extra == dict_get(v, K_extra, List(<<>>)).items
         IN  {<<location(os_path_join(S2, rstrip(extra[i].s, sep))),
               location(os_path_join(D2, stem(rstrip(extra[i].s, sep))))>>
                 : i \in 1..Len(extra)}
             \cup expected_items(dict_get(v, K_subsections, List(<<>>)).items, S2, D2)

expected_items(items, S, D) ==
    UNION {expected_value(items[i].kv[1][1], items[i].kv[1][2], S, D)
              : i \in 1..Len(items)}

\* The copy plan as locations
plan_locations == {<<location(e[1]), location(e[2])>> : e \in structure.to_copy}

\* C4: each string value v under key k adds (join(S, v), join(D, dirname(k)))
\* to the copy plan, a section extending S by its path and D by its key; the
\* scenario's structure yields the copy plan {(/src/intro.md, /dst/docs),
\* (/src/lessons/l1.md, /dst/docs/Lessons)} and the ids intro, Lessons/l1.
\* Paths are compared as locations, as line 316 reads them.
C4_CopyPlanOfStrings ==
    (pc = "organize" /\ valid_items(config.items)) =>
        /\ plan_locations = expected_items(config.items, cwd, docs)
        /\ config = StructureScenario =>
              /\ plan_locations = {<<<<"/", "s", "r", "c", "/", "i", "n", "t", "r", "o", ".", "m", "d">>, <<"/", "d", "s", "t", "/", "d", "o", "c", "s">>>>,
                                   <<<<"/", "s", "r", "c", "/", "l", "e", "s", "s", "o", "n", "s", "/", "l", "1", ".", "m", "d">>, <<"/", "d", "s", "t", "/", "d", "o", "c", "s", "/", "L", "e", "s", "s", "o", "n", "s">>>>}
              /\ walk_structs(structure.sidebar) = <<<<"i", "n", "t", "r", "o">>, <<"L", "e", "s", "s", "o", "n", "s", "/", "l", "1">>>>

\* C4's case: the scenario's structure has been parsed
C4_Witness == pc = "organize" /\ config = StructureScenario

\* C6: a description with a node that is no string, list or object with
\* subsections makes _parse_structure fail with the plugin's structure error,
\* and self.structure is not assigned.
C6_MalformedRejected ==
    (pc # "parse" /\ ~valid_items(config.items)) =>
        /\ pc = "failed"
        /\ err.type = "PluginRunError"
        /\ structure = Unset

(***************************************************************************)
(* The navigation tree against the files as copied                         *)
(***************************************************************************)

RECURSIVE doc_leaves(_, _, _)

\* The string-valued entries of a valid description, each with its source
\* path and the id of its node: the nodes are the items' in the same order
doc_leaves(items, nodes, S) ==
    UNION { LET k == items[i].kv[1][1]
                v == items[i].kv[1][2]
            IN  IF v.t = "str"
                THEN {[k |-> k, v |-> v.s, src |-> location(os_path_join(S, v.s)),
                       id |-> nodes[i].id]}
                ELSE IF v.t = "list"
                THEN doc_leaves(v.items, nodes[i].children, S)
                ELSE doc_leaves(dict_get(v, K_subsections, List(<<>>)).items,
                                nodes[i].children,
                                location(os_path_join(S, dict_get(v, K_path, Str(<<>>)).s)))
          : i \in 1..Len(items) }

\* The document extension of a value, none for any other value
doc_ext(v) ==
    IF endswith(v, <<".", "m", "d", "x">>) THEN <<".", "m", "d", "x">>
    ELSE IF endswith(v, <<".", "m", "d">>) THEN <<".", "m", "d">>
    ELSE <<>>

\* The entries whose value names one document file of the content tree
DocLeaves ==
    {l \in doc_leaves(config.items, structure.sidebar, cwd) :
        doc_ext(l.v) # <<>> /\ os_path_isfile(TreePlace, l.src)}

\* The path a leaf id names: the path _resolve_links opens for it (line 348)
id_path(l) == os_path_join(docs, l.id \o doc_ext(l.v))

\* The paths at which the entries of the copy plan for a leaf's source put
\* its copy: shutil.copy(src, dst) writes dst/basename(src)
copy_paths(l) ==
    {os_path_join(e[2], os_path_basename(e[1])) : e \in {c \in structure.to_copy : c[1] = l.src}}

\* _organize_files has returned
Organized == pc = "organize" /\ n_copied = Len(order)

\* The copy of a leaf's file is the file its id names
copied_at_id(l) ==
    /\ location(id_path(l)) \in DOMAIN fs
    /\ fs[location(id_path(l))].kind = "file"
    /\ fs[location(id_path(l))].origin = l.src

\* C11: for every string-valued node of a valid structure whose value names
\* one document file, at any depth and for keys with directory parts, the id
\* of its navigation leaf, with the document extension and under the docs
\* root, is exactly the path at which _organize_files puts the copy of that
\* file according to the node's entry of the copy plan.
C11_IdIsCopyPath ==
    (Organized /\ valid_items(config.items)) =>
        \A l \in DocLeaves : copied_at_id(l) /\ id_path(l) \in copy_paths(l)

=============================================================================
